---- MODULE Spec2Model ----
(***************************************************************************)
(* The reactive rescue agent of lab-03/reactive_agent.py: the sensor       *)
(* report and its disaster classifier, the event queue, and the finite     *)
(* state machine FSMBehaviour (run, handle_event, execute_state_behavior,  *)
(* log_trace).                                                             *)
(*                                                                         *)
(* Sensor values are fixed-point numbers in hundredths (4250 is 42.50), so *)
(* that the ":.2f" trace lines and the 0.33 / 0.66 severity cuts are exact *)
(* integer arithmetic.  random.random() is drawn in hundredths as well.    *)
(*                                                                         *)
(* A value on that grid stands for the real number it writes; the rounding *)
(* of binary floating point is not part of the model.                      *)
(*                                                                         *)
(* One call of run() is four consecutive phases, sequenced by pc:          *)
(*   Sense (lines 142-164), ProcessEvent or NoEvent (166-172),            *)
(*   Act (175), Finish (177-184).                                          *)
(* There is no await before line 182, so nothing interleaves with them.    *)
(*                                                                         *)
(* The monitoring variant of lab-03/multi_agent_disaster_manager.py (the   *)
(* sensor agent, the coordinator and the rescue agents) is a second        *)
(* program with variables of its own; it has its specification, SpecMulti. *)
(***************************************************************************)
EXTENDS Integers, Sequences, FiniteSets, TLC

VARIABLES
    state,          \* FSMBehaviour.state          (AgentState value)
    current_goal,   \* FSMBehaviour.current_goal   (Goal value)
    cycle_count,    \* FSMBehaviour.cycle_count
    event_queue,    \* FSMBehaviour.event_queue    (sequence of DisasterEvent)
    trace,          \* the lines log_trace printed during the current call of run()
    log_file,       \* the lines log_trace wrote to trace_file during that call
    sensor_report,  \* run()'s local sensor_report: <<report>>, <<>> before any
    detected,       \* run()'s local event of line 148: <<event>>, <<>> for None
    severity_args,  \* the arguments of the _get_severity calls under test
    severities,     \* the results of those calls, <<>> before they are made
    alive,          \* the agent is running (FALSE once agent.stop() was awaited)
    stop_calls,     \* how many times run() has awaited agent.stop()
    pc,             \* position inside run(): "ready", "event", "act", "finish"
    step_state,     \* history: state when the current call of run() began
    step_goal,      \* history: current_goal when the current call of run() began
    step_queue,     \* history: event_queue when the current call of run() began
    popped,         \* history: the event popped by the current call, <<>> if none
    pre_act_state,  \* history: state when execute_state_behavior was entered
    smoke_sensors,      \* SensorAgent.smoke_sensors: smoke_percentage of sensors 1..4
    vibration_sensor,   \* SensorAgent.vibration_sensor.frequency
    evaluation,         \* MonitorBehaviour.run's (severity, disaster_type), <<>> before
    coordinator_state,  \* CoordinatorAgent.state
    rescue_state,       \* RescueAgent.state of rescue agents 1 and 2
    chosen,             \* handle_disaster's local agent: <<agent_id>>, <<>> if none
    dispatch_calls      \* history: handle_disaster calls of the current monitoring cycle

\* The variables of the reactive agent (reactive_agent.py).
fsm_vars ==
    <<state, current_goal, cycle_count, event_queue, trace, log_file,
      sensor_report, detected, severity_args, severities, stop_calls,
      step_state, step_goal, step_queue, popped, pre_act_state>>

\* The variables of the multi-agent manager (multi_agent_disaster_manager.py).
multi_vars ==
    <<smoke_sensors, vibration_sensor, evaluation, coordinator_state,
      rescue_state, chosen, dispatch_calls>>

vars == <<fsm_vars, multi_vars, alive, pc>>

-----------------------------------------------------------------------------
(* AgentState and Goal enums, by their .value strings.                      *)

IDLE == "IDLE"
MONITORING == "MONITORING"
ASSESSING == "ASSESSING"
RESPONDING == "RESPONDING"
RESCUING == "RESCUING"
EVACUATING == "EVACUATING"
RECOVERY == "RECOVERY"

AgentState ==
    {IDLE, MONITORING, ASSESSING, RESPONDING, RESCUING, EVACUATING, RECOVERY}

MAINTAIN_SAFETY == "Maintain Safety"
DETECT_DISASTERS == "Detect Disasters"
ASSESS_DAMAGE == "Assess Damage"
RESCUE_VICTIMS == "Rescue Victims"
EVACUATE_AREA == "Evacuate Area"
COORDINATE_RESPONSE == "Coordinate Response"

Goal ==
    {MAINTAIN_SAFETY, DETECT_DISASTERS, ASSESS_DAMAGE, RESCUE_VICTIMS,
     EVACUATE_AREA, COORDINATE_RESPONSE}

-----------------------------------------------------------------------------
(* SensorReport: the sampled values and the classifier.                     *)

\* Values of random.uniform(20, 45), in hundredths of a degree, the upper
\* end of the range among them.
TemperatureSamples == {3000, 4000, 4500}

\* Values of random.uniform(0, 120), in hundredths of a km/h.
WindSpeedSamples == {1000, 10000, 12000}

\* Values of random.uniform(0, 8), in hundredths of a metre, the upper end
\* of the range among them.
WaterLevelSamples == {100, 800}

\* Values of random.uniform(0, 100), in hundredths of a percent.
StructuralDamageSamples == {500, 7000, 9000}

SensorReport ==
    [temperature : TemperatureSamples,
     wind_speed : WindSpeedSamples,
     water_level : WaterLevelSamples,
     structural_damage : StructuralDamageSamples]

\* Values of random.random(), in hundredths.
RandomSamples == {0, 29, 30, 99}

DisasterEvent(event_type, severity, location) ==
    [event_type |-> event_type, severity |-> severity, location |-> location]

\* DisasterEvent.__str__
EventStr(event) ==
    event.event_type \o " (Severity: " \o event.severity \o ") at "
        \o event.location

\* Mutant of GetSeverity: the cuts are inclusive (<= instead of <).
GetSeverity_InclusiveCuts(value, min_threshold, max_threshold) ==
    LET range_size == max_threshold - min_threshold
        offset == value - 100 * min_threshold
    IN  IF offset <= 33 * range_size THEN "Medium"
        ELSE IF offset <= 66 * range_size THEN "High"
        ELSE "Critical"

\* Mutant of GetSeverity: the results of the last two branches are exchanged.
GetSeverity_SwappedTiers(value, min_threshold, max_threshold) ==
    LET range_size == max_threshold - min_threshold
        offset == value - 100 * min_threshold
    IN  IF offset < 33 * range_size THEN "Medium"
        ELSE IF offset < 66 * range_size THEN "Critical"
        ELSE "High"

\* _get_severity: position = (value - min) / (max - min) against 0.33 and
\* 0.66; value in hundredths, the thresholds in units, so
\* position < 0.33  <=>  (value - 100*min) < 33 * (max - min).
GetSeverity(value, min_threshold, max_threshold) ==
    LET range_size == max_threshold - min_threshold
        offset == value - 100 * min_threshold
    IN  IF offset < 33 * range_size THEN "Medium"
        ELSE IF offset < 66 * range_size THEN "High"
        ELSE "Critical"

\* Mutant of FireEvent: the severity band of the fire rule ends at 45.
FireEvent_NarrowBand(r) ==
    DisasterEvent("Fire", GetSeverity(r.temperature, 40, 45), "Fire Zone")

\* detect_disaster, line 85: the event of the fire rule.
FireEvent(r) ==
    DisasterEvent("Fire", GetSeverity(r.temperature, 40, 50), "Fire Zone")

\* detect_disaster, line 89: the event of the flood rule.
FloodEvent(r) ==
    DisasterEvent("Flood", GetSeverity(r.water_level, 5, 10), "Flood Zone")

\* detect_disaster, line 93: the event of the hurricane rule.
HurricaneEvent(r) ==
    DisasterEvent("Hurricane", GetSeverity(r.wind_speed, 80, 120), "Storm Zone")

\* detect_disaster, line 97: the event of the structural collapse rule.
CollapseEvent(r) ==
    DisasterEvent("Building Collapse",
                  GetSeverity(r.structural_damage, 60, 100), "Collapse Zone")

\* Mutant of DetectDisaster: the flood rule is tested before the fire rule.
DetectDisaster_FloodFirst(r) ==
    IF r.water_level > 500 THEN <<FloodEvent(r)>>
    ELSE IF r.temperature > 4000 THEN <<FireEvent(r)>>
    ELSE IF r.wind_speed > 8000 THEN <<HurricaneEvent(r)>>
    ELSE IF r.structural_damage > 6000 THEN <<CollapseEvent(r)>>
    ELSE <<>>

\* Mutant of DetectDisaster: the hurricane rule is tested before the flood
\* rule.
DetectDisaster_HurricaneBeforeFlood(r) ==
    IF r.temperature > 4000 THEN <<FireEvent(r)>>
    ELSE IF r.wind_speed > 8000 THEN <<HurricaneEvent(r)>>
    ELSE IF r.water_level > 500 THEN <<FloodEvent(r)>>
    ELSE IF r.structural_damage > 6000 THEN <<CollapseEvent(r)>>
    ELSE <<>>

\* Mutant of DetectDisaster: the collapse rule is tested before the hurricane
\* rule.
DetectDisaster_CollapseBeforeHurricane(r) ==
    IF r.temperature > 4000 THEN <<FireEvent(r)>>
    ELSE IF r.water_level > 500 THEN <<FloodEvent(r)>>
    ELSE IF r.structural_damage > 6000 THEN <<CollapseEvent(r)>>
    ELSE IF r.wind_speed > 8000 THEN <<HurricaneEvent(r)>>
    ELSE <<>>

\* Mutant of DetectDisaster: the collapse rule fires at the threshold (>=).
DetectDisaster_CollapseAtThreshold(r) ==
    IF r.temperature > 4000 THEN <<FireEvent(r)>>
    ELSE IF r.water_level > 500 THEN <<FloodEvent(r)>>
    ELSE IF r.wind_speed > 8000 THEN <<HurricaneEvent(r)>>
    ELSE IF r.structural_damage >= 6000 THEN <<CollapseEvent(r)>>
    ELSE <<>>

\* detect_disaster: <<event>> for a DisasterEvent, <<>> for None.
DetectDisaster(r) ==
    IF r.temperature > 4000 THEN <<FireEvent(r)>>
    ELSE IF r.water_level > 500 THEN <<FloodEvent(r)>>
    ELSE IF r.wind_speed > 8000 THEN <<HurricaneEvent(r)>>
    ELSE IF r.structural_damage > 6000 THEN <<CollapseEvent(r)>>
    ELSE <<>>

\* The ":.2f" format of a value held in hundredths.
Fmt2(v) ==
    ToString(v \div 100) \o "."
        \o ToString((v % 100) \div 10) \o ToString(v % 10)

-----------------------------------------------------------------------------
(* FSMBehaviour.                                                            *)

\* The cycle budget of run().
MaxCycles == 15

\* random.random() < 0.3, in hundredths.
CompletionChance == 30

Rule70 ==
    "======================================================================"

\* The trace lines of run() before the event phase (the wall-clock time of
\* the CYCLE line is not part of the model).
HeaderLines(count, st, goal, r) ==
    << "\n" \o Rule70,
       "CYCLE #" \o ToString(count),
       Rule70,
       "Current State: " \o st,
       "Current Goal: " \o goal,
       "\n[SENSOR READINGS]",
       "  Temperature: " \o Fmt2(r.temperature) \o "°C",
       "  Wind Speed: " \o Fmt2(r.wind_speed) \o " km/h",
       "  Water Level: " \o Fmt2(r.water_level) \o " m",
       "  Structural Damage: " \o Fmt2(r.structural_damage) \o "%" >>

\* Mutant of FromIdleOrMonitoring: only MONITORING is sent to ASSESSING, IDLE
\* is left as it is.
FromIdleOrMonitoring_SkipsIdle(st) ==
    IF st = IDLE
    THEN [state |-> IDLE, goal |-> MAINTAIN_SAFETY, lines |-> <<>>]
    ELSE [state |-> ASSESSING, goal |-> ASSESS_DAMAGE,
          lines |-> <<"  " \o st \o " → ASSESSING">>]

\* handle_event, branch state in (IDLE, MONITORING).
FromIdleOrMonitoring(st) ==
    [state |-> ASSESSING, goal |-> ASSESS_DAMAGE,
     lines |-> <<"  " \o st \o " → ASSESSING">>]

\* Mutant of FromAssessing: the severity tests are taken in the wrong order
\* (Critical evacuates, High responds, anything else rescues).
FromAssessing_Rotated(event) ==
    IF event.severity = "Critical"
    THEN [state |-> EVACUATING, goal |-> EVACUATE_AREA,
          lines |-> <<"  ASSESSING → EVACUATING (Critical severity)">>]
    ELSE IF event.severity = "High"
    THEN [state |-> RESPONDING, goal |-> COORDINATE_RESPONSE,
          lines |-> <<"  ASSESSING → RESPONDING (High severity)">>]
    ELSE [state |-> RESCUING, goal |-> RESCUE_VICTIMS,
          lines |-> <<"  ASSESSING → RESCUING (Medium severity)">>]

\* Mutant of FromAssessing: the High branch logs the line of the Medium one.
FromAssessing_WrongLine(event) ==
    IF event.severity = "Critical"
    THEN [state |-> RESCUING, goal |-> RESCUE_VICTIMS,
          lines |-> <<"  ASSESSING → RESCUING (Critical severity)">>]
    ELSE IF event.severity = "High"
    THEN [state |-> EVACUATING, goal |-> EVACUATE_AREA,
          lines |-> <<"  ASSESSING → RESPONDING (Medium severity)">>]
    ELSE [state |-> RESPONDING, goal |-> COORDINATE_RESPONSE,
          lines |-> <<"  ASSESSING → RESPONDING (Medium severity)">>]

\* handle_event, branch state == ASSESSING.
FromAssessing(event) ==
    IF event.severity = "Critical"
    THEN [state |-> RESCUING, goal |-> RESCUE_VICTIMS,
          lines |-> <<"  ASSESSING → RESCUING (Critical severity)">>]
    ELSE IF event.severity = "High"
    THEN [state |-> EVACUATING, goal |-> EVACUATE_AREA,
          lines |-> <<"  ASSESSING → EVACUATING (High severity)">>]
    ELSE [state |-> RESPONDING, goal |-> COORDINATE_RESPONSE,
          lines |-> <<"  ASSESSING → RESPONDING (Medium severity)">>]

\* Mutant of FromResponse: the continuing branch assigns the goal too.
FromResponse_ResetsGoal(st, goal, rnd) ==
    IF rnd < CompletionChance
    THEN [state |-> RECOVERY, goal |-> COORDINATE_RESPONSE,
          lines |-> <<"  " \o st \o " → RECOVERY (Task completed)">>]
    ELSE [state |-> st, goal |-> COORDINATE_RESPONSE,
          lines |-> <<"  " \o st \o " → " \o st \o " (Continuing)">>]

\* handle_event, branch state in (RESPONDING, RESCUING, EVACUATING).
FromResponse(st, goal, rnd) ==
    IF rnd < CompletionChance
    THEN [state |-> RECOVERY, goal |-> COORDINATE_RESPONSE,
          lines |-> <<"  " \o st \o " → RECOVERY (Task completed)">>]
    ELSE [state |-> st, goal |-> goal,
          lines |-> <<"  " \o st \o " → " \o st \o " (Continuing)">>]

\* Mutant of FromRecovery: the goal assignment is forgotten (the goal in
\* RECOVERY is always COORDINATE_RESPONSE).
FromRecovery_KeepsGoal ==
    [state |-> MONITORING, goal |-> COORDINATE_RESPONSE,
     lines |-> <<"  RECOVERY → MONITORING (Recovery complete)">>]

\* Mutant of FromRecovery: recovery returns to IDLE instead of MONITORING.
FromRecovery_ToIdle ==
    [state |-> IDLE, goal |-> MAINTAIN_SAFETY,
     lines |-> <<"  RECOVERY → IDLE (Recovery complete)">>]

\* handle_event, branch state == RECOVERY.
FromRecovery ==
    [state |-> MONITORING, goal |-> DETECT_DISASTERS,
     lines |-> <<"  RECOVERY → MONITORING (Recovery complete)">>]

\* handle_event: the new state and goal and the lines logged.
HandleEvent(st, goal, event, rnd) ==
    LET t == IF st = IDLE \/ st = MONITORING THEN FromIdleOrMonitoring(st)
             ELSE IF st = ASSESSING THEN FromAssessing(event)
             ELSE IF st \in {RESPONDING, RESCUING, EVACUATING}
                  THEN FromResponse(st, goal, rnd)
             ELSE IF st = RECOVERY THEN FromRecovery
             ELSE [state |-> st, goal |-> goal, lines |-> <<>>]
    IN  [t EXCEPT !.lines = <<"\n[FSM TRANSITION]">> \o @]

\* Mutant of IdleAction: the assignment of line 236 is missing.
IdleAction_NoTransition ==
    [state |-> IDLE, lines |-> <<"  → Initializing systems...">>]

\* execute_state_behavior, branch state == IDLE.
IdleAction ==
    [state |-> MONITORING, lines |-> <<"  → Initializing systems...">>]

\* execute_state_behavior, the branches of the other states.
StateActionLines(st) ==
    IF st = MONITORING
    THEN <<"  → Monitoring environment for disasters",
           "  → Running sensor scans">>
    ELSE IF st = ASSESSING
    THEN <<"  → Analyzing disaster impact",
           "  → Determining response priority",
           "  → Calculating resource requirements">>
    ELSE IF st = RESPONDING
    THEN <<"  → Deploying emergency response teams",
           "  → Establishing communication channels",
           "  → Coordinating with other agents">>
    ELSE IF st = RESCUING
    THEN <<"  → Locating victims",
           "  → Deploying rescue teams",
           "  → Providing medical assistance">>
    ELSE IF st = EVACUATING
    THEN <<"  → Issuing evacuation orders",
           "  → Opening evacuation routes",
           "  → Guiding civilians to safety">>
    ELSE IF st = RECOVERY
    THEN <<"  → Assessing residual risks",
           "  → Coordinating cleanup operations",
           "  → Preparing for next incident">>
    ELSE <<>>

\* Mutant of ExecuteStateBehavior: the RECOVERY branch moves on to MONITORING.
ExecuteStateBehavior_RecoveryAdvances(st) ==
    LET t == IF st = IDLE THEN IdleAction
             ELSE [state |-> IF st = RECOVERY THEN MONITORING ELSE st,
                   lines |-> StateActionLines(st)]
    IN  [t EXCEPT !.lines = <<"\n[ACTIONS]">> \o @]

\* execute_state_behavior: the new state and the lines logged.
ExecuteStateBehavior(st) ==
    LET t == IF st = IDLE THEN IdleAction
             ELSE [state |-> st, lines |-> StateActionLines(st)]
    IN  [t EXCEPT !.lines = <<"\n[ACTIONS]">> \o @]

\* Mutant of BudgetReached: off by one (> instead of >=).
BudgetReached_OffByOne(count) == count > MaxCycles

\* The test of run() that ends the simulation.
BudgetReached(count) == count >= MaxCycles

StopLine == "\n[INFO] Simulation complete. Agent stopping...\n"

-----------------------------------------------------------------------------
(* multi_agent_disaster_manager.py: the enums and the objects main() builds. *)

EVALUATING == "EVALUATING"
ASSIGNING == "ASSIGNING"
DISPATCHED == "DISPATCHED"
COMPLETED == "COMPLETED"

CoordinatorState == {IDLE, EVALUATING, ASSIGNING, MONITORING}

RescueState == {IDLE, DISPATCHED, RESCUING, COMPLETED}

\* main(): RescueAgent(1), RescueAgent(2).
RescueAgents == {1, 2}

\* SensorAgent.__init__: SmokeSensor(i) for i in range(1, 5).
SmokeSensorIds == 1 .. 4

\* The manager is not part of the run: no sensor, nobody dispatched.
NoMultiAgent ==
    /\ smoke_sensors = <<>>
    /\ vibration_sensor = 0
    /\ evaluation = <<>>
    /\ coordinator_state = IDLE
    /\ rescue_state = [a \in RescueAgents |-> IDLE]
    /\ chosen = <<>>
    /\ dispatch_calls = 0

-----------------------------------------------------------------------------
(* The state after FSMBehaviour.__init__, before the first call of run().   *)

\* No _get_severity call is under test.
NoSeverityArgs ==
    [value |-> 0, other |-> 0, min_threshold |-> 0, max_threshold |-> 0]

\* The fields FSMBehaviour.__init__ sets, and an agent that is running.
Constructed ==
    /\ state = IDLE
    /\ current_goal = MAINTAIN_SAFETY
    /\ cycle_count = 0
    /\ trace = <<>>
    /\ log_file = <<>>
    /\ sensor_report = <<>>
    /\ detected = <<>>
    /\ alive = TRUE
    /\ stop_calls = 0
    /\ step_state = IDLE
    /\ step_goal = MAINTAIN_SAFETY
    /\ popped = <<>>
    /\ pre_act_state = IDLE

Init ==
    /\ Constructed
    /\ NoMultiAgent
    /\ event_queue = <<>>
    /\ step_queue = <<>>
    /\ severity_args = NoSeverityArgs
    /\ severities = <<>>
    /\ pc = "ready"

\* run(), lines 149-150: event_queue.append(event) if there is an event.
Enqueue(queue, event) == queue \o event

\* Mutant of Dequeue: pop() instead of pop(0), the newest event is taken.
Dequeue_Newest(queue) ==
    [event |-> queue[Len(queue)], rest |-> SubSeq(queue, 1, Len(queue) - 1)]

\* Mutant of Dequeue: the event is read and left in the queue.
Dequeue_Peek(queue) == [event |-> Head(queue), rest |-> queue]

\* run(), line 168: event_queue.pop(0), the oldest event and what is left.
Dequeue(queue) == [event |-> Head(queue), rest |-> Tail(queue)]

\* run(), lines 142-164: count the cycle, sample, classify, enqueue, log.
Sense ==
    /\ pc = "ready"
    /\ alive
    /\ \E r \in SensorReport :
          /\ cycle_count' = cycle_count + 1
          /\ sensor_report' = <<r>>
          /\ detected' = DetectDisaster(r)
          /\ event_queue' = Enqueue(event_queue, DetectDisaster(r))
          /\ trace' = HeaderLines(cycle_count + 1, state, current_goal, r)
          /\ log_file' = HeaderLines(cycle_count + 1, state, current_goal, r)
    /\ step_state' = state
    /\ step_goal' = current_goal
    /\ step_queue' = event_queue
    /\ popped' = <<>>
    /\ pre_act_state' = state
    /\ pc' = "event"
    /\ UNCHANGED <<state, current_goal, alive, stop_calls, severity_args,
                   severities>>
    /\ UNCHANGED multi_vars

\* run(), line 169: the line that announces the popped event.  (The warning
\* sign is written without its variation selector U+FE0F, which the TLA+
\* lexer does not accept inside a string.)
EventLine(event) == "\n[EVENT DETECTED] ⚠  " \o EventStr(event)

\* run(), lines 167-170: pop the oldest event and handle it.
ProcessEvent ==
    /\ pc = "event"
    /\ event_queue # <<>>
    /\ \E rnd \in RandomSamples :
          LET event == Dequeue(event_queue).event
              t == HandleEvent(state, current_goal, event, rnd)
          IN  /\ event_queue' = Dequeue(event_queue).rest
              /\ popped' = <<event>>
              /\ state' = t.state
              /\ current_goal' = t.goal
              /\ trace' = trace \o <<EventLine(event)>> \o t.lines
              /\ log_file' = log_file \o <<EventLine(event)>> \o t.lines
    /\ pc' = "act"
    /\ UNCHANGED <<cycle_count, alive, stop_calls, step_state, step_goal,
                   step_queue, pre_act_state, sensor_report, detected,
                   severity_args, severities>>
    /\ UNCHANGED multi_vars

\* run(), line 172: the line of a cycle with an empty queue.  (The check mark
\* U+2713 is left out of the line: the TLA+ lexer does not accept it.)
NoEventLine == "\n[STATUS] No events detected"

\* Mutant of NoEvent: handle_event is called outside the "if", so the branch
\* of IDLE and MONITORING, which does not read the event, runs with no event.
NoEvent_HandlesAnyway ==
    /\ pc = "event"
    /\ event_queue = <<>>
    /\ trace' = Append(trace, NoEventLine)
    /\ log_file' = Append(log_file, NoEventLine)
    /\ state' = IF state \in {IDLE, MONITORING} THEN ASSESSING ELSE state
    /\ current_goal' = IF state \in {IDLE, MONITORING} THEN ASSESS_DAMAGE
                       ELSE current_goal
    /\ pc' = "act"
    /\ UNCHANGED <<cycle_count, event_queue, alive, stop_calls, step_state,
                   step_goal, step_queue, popped, pre_act_state, sensor_report,
                   detected, severity_args, severities>>
    /\ UNCHANGED multi_vars

\* run(), lines 171-172: the queue is empty.
NoEvent ==
    /\ pc = "event"
    /\ event_queue = <<>>
    /\ trace' = Append(trace, NoEventLine)
    /\ log_file' = Append(log_file, NoEventLine)
    /\ pc' = "act"
    /\ UNCHANGED <<state, current_goal, cycle_count, event_queue, alive,
                   stop_calls, step_state, step_goal, step_queue, popped,
                   pre_act_state, sensor_report, detected, severity_args,
                   severities>>
    /\ UNCHANGED multi_vars

\* run(), line 175: execute_state_behavior.
Act ==
    /\ pc = "act"
    /\ LET t == ExecuteStateBehavior(state)
       IN  /\ state' = t.state
           /\ trace' = trace \o t.lines
           /\ log_file' = log_file \o t.lines
    /\ pre_act_state' = state
    /\ pc' = "finish"
    /\ UNCHANGED <<current_goal, cycle_count, event_queue, alive, stop_calls,
                   step_state, step_goal, step_queue, popped, sensor_report,
                   detected, severity_args, severities>>
    /\ UNCHANGED multi_vars

\* run(), lines 177-184: the closing rule, and the stop after the budget.
Finish ==
    /\ pc = "finish"
    /\ IF BudgetReached(cycle_count)
       THEN /\ trace' = trace \o <<Rule70 \o "\n", StopLine>>
            /\ log_file' = log_file \o <<Rule70 \o "\n", StopLine>>
            /\ alive' = FALSE
            /\ stop_calls' = stop_calls + 1
       ELSE /\ trace' = Append(trace, Rule70 \o "\n")
            /\ log_file' = Append(log_file, Rule70 \o "\n")
            /\ UNCHANGED <<alive, stop_calls>>
    /\ pc' = "ready"
    /\ UNCHANGED <<state, current_goal, cycle_count, event_queue, step_state,
                   step_goal, step_queue, popped, pre_act_state, sensor_report,
                   detected, severity_args, severities>>
    /\ UNCHANGED multi_vars

Next == Sense \/ ProcessEvent \/ NoEvent \/ Act \/ Finish

Spec == Init /\ [][Next]_vars

\* The behaviour is cyclic: as long as the agent is alive the scheduler
\* calls run() again after each return, and within a call every statement
\* is followed by the next (the sleep of line 184 ends).
SpecFair == Spec /\ WF_vars(Next)

-----------------------------------------------------------------------------
(* One call of run() on a queue that already holds events: the list         *)
(* operations of lines 150 and 168 on queues of every length up to          *)
(* MaxQueue.                                                                *)

\* The longest queue a call of run() is started with.
MaxQueue == 2

\* The events detect_disaster yields on the sampled reports.
PendingEvents ==
    {DetectDisaster(r)[1] : r \in {x \in SensorReport : DetectDisaster(x) # <<>>}}

PendingQueues == UNION {[1..n -> PendingEvents] : n \in 0..MaxQueue}

InitQueue ==
    /\ Constructed
    /\ NoMultiAgent
    /\ event_queue \in PendingQueues
    /\ step_queue = event_queue
    /\ severity_args = NoSeverityArgs
    /\ severities = <<>>
    /\ pc = "ready"

FirstSense == cycle_count = 0 /\ Sense

NextQueue == FirstSense \/ ProcessEvent \/ NoEvent \/ Act \/ Finish

SpecQueue == InitQueue /\ [][NextQueue]_vars

-----------------------------------------------------------------------------
(* detect_disaster on its own: one call on every report of a grid that      *)
(* holds, for each sensor, a value below its threshold, the threshold, the  *)
(* next value above it, the severity cuts and the end of the sampled range. *)

GridTemperature == {2000, 4000, 4001, 4200, 4329, 4330, 4500}

GridWindSpeed == {0, 1000, 8000, 8001, 9320, 10640, 12000}

GridWaterLevel == {0, 100, 500, 501, 665, 800}

GridStructuralDamage == {0, 500, 6000, 6001, 7320, 8640, 10000}

ReportGrid ==
    [temperature : GridTemperature,
     wind_speed : GridWindSpeed,
     water_level : GridWaterLevel,
     structural_damage : GridStructuralDamage]

InitClassify ==
    /\ Constructed
    /\ NoMultiAgent
    /\ event_queue = <<>>
    /\ step_queue = <<>>
    /\ severity_args = NoSeverityArgs
    /\ severities = <<>>
    /\ pc = "classify"

\* SensorReport() and sensor_report.detect_disaster(), lines 145-148.
Classify ==
    /\ pc = "classify"
    /\ \E r \in ReportGrid :
          /\ sensor_report' = <<r>>
          /\ detected' = DetectDisaster(r)
    /\ pc' = "classified"
    /\ UNCHANGED <<state, current_goal, cycle_count, event_queue, trace,
                   log_file, severity_args, severities, alive, stop_calls,
                   step_state, step_goal, step_queue, popped, pre_act_state>>
    /\ UNCHANGED multi_vars

\* The queue takes the event as in a call of run(), lines 149-150.
Push ==
    /\ pc = "classified"
    /\ event_queue' = Enqueue(event_queue, detected)
    /\ pc' = "pushed"
    /\ UNCHANGED <<state, current_goal, cycle_count, trace, log_file,
                   sensor_report, detected, severity_args, severities, alive,
                   stop_calls, step_state, step_goal, step_queue, popped,
                   pre_act_state>>
    /\ UNCHANGED multi_vars

NextClassify == Classify \/ Push

SpecClassify == InitClassify /\ [][NextClassify]_vars

-----------------------------------------------------------------------------
(* _get_severity on its own: two calls with the same thresholds, on the     *)
(* four threshold pairs of detect_disaster and on values at, around and     *)
(* outside the cuts.                                                        *)

\* The (min_threshold, max_threshold) pairs of lines 85, 89, 93 and 97.
SeverityBands == {<<40, 50>>, <<5, 10>>, <<80, 120>>, <<60, 100>>}

\* Positions in percent of the band: below it, its ends, each cut with its
\* neighbours, above it.
PositionGrid == {-50, 0, 1, 32, 33, 34, 65, 66, 67, 100, 150}

\* The value, in hundredths, at position p percent of band b.
ValueAt(p, b) == 100 * b[1] + p * (b[2] - b[1])

SeverityArgs ==
    {[value |-> ValueAt(p, b), other |-> ValueAt(q, b),
      min_threshold |-> b[1], max_threshold |-> b[2]] :
        p \in PositionGrid, q \in PositionGrid, b \in SeverityBands}

InitSeverity ==
    /\ Constructed
    /\ NoMultiAgent
    /\ event_queue = <<>>
    /\ step_queue = <<>>
    /\ severity_args \in SeverityArgs
    /\ severities = <<>>
    /\ pc = "severity"

\* self._get_severity(value, min_threshold, max_threshold), for both values.
Severity ==
    /\ pc = "severity"
    /\ severities' =
          <<GetSeverity(severity_args.value, severity_args.min_threshold,
                        severity_args.max_threshold),
            GetSeverity(severity_args.other, severity_args.min_threshold,
                        severity_args.max_threshold)>>
    /\ pc' = "severity_done"
    /\ UNCHANGED <<state, current_goal, cycle_count, event_queue, trace,
                   log_file, sensor_report, detected, severity_args, alive,
                   stop_calls, step_state, step_goal, step_queue, popped,
                   pre_act_state>>
    /\ UNCHANGED multi_vars

NextSeverity == Severity

SpecSeverity == InitSeverity /\ [][NextSeverity]_vars

-----------------------------------------------------------------------------
(* handle_event on its own: the event phase of one call of run(), from      *)
(* every state and goal and on every event DisasterEvent can construct,     *)
(* among them events whose severity is not one _get_severity returns.       *)

\* The severities _get_severity returns.
KnownSeverities == {"Medium", "High", "Critical"}

\* Severities DisasterEvent.__init__ accepts as well: it stores any value.
OtherSeverities == {"Low", "Extreme"}

\* The event types and locations of detect_disaster.
EventKinds ==
    {<<"Fire", "Fire Zone">>, <<"Flood", "Flood Zone">>,
     <<"Hurricane", "Storm Zone">>, <<"Building Collapse", "Collapse Zone">>}

HandledEvents ==
    {DisasterEvent(k[1], sev, k[2]) :
        k \in EventKinds, sev \in KnownSeverities \cup OtherSeverities}

\* A call of run() that is about to pop the one event of its queue.
InitHandle ==
    /\ NoMultiAgent
    /\ state \in AgentState
    /\ current_goal \in Goal
    /\ cycle_count = 1
    /\ \E event \in HandledEvents :
          /\ event_queue = <<event>>
          /\ detected = <<event>>
    /\ trace = <<>>
    /\ log_file = <<>>
    /\ sensor_report = <<>>
    /\ severity_args = NoSeverityArgs
    /\ severities = <<>>
    /\ alive = TRUE
    /\ stop_calls = 0
    /\ step_state = state
    /\ step_goal = current_goal
    /\ step_queue = <<>>
    /\ popped = <<>>
    /\ pre_act_state = state
    /\ pc = "event"

NextHandle == ProcessEvent \/ Act

SpecHandle == InitHandle /\ [][NextHandle]_vars

-----------------------------------------------------------------------------
(* run() with a trace file that can fail.  log_trace prints the message and *)
(* then opens the file and writes it; when the open or the write raises,    *)
(* the message is on the console and not in the file, and the exception     *)
(* leaves log_trace, its caller and run(), none of which catches it: the    *)
(* statements after the failing call are not executed.  What the caller of  *)
(* run() does with the exception is outside this file; pc = "failed" is     *)
(* the end of the behaviour here.  The file is followed over the first      *)
(* SinkCycles calls of run().                                               *)

\* The calls of run() over which the trace file is followed.
SinkCycles == 2

\* A call of run() among the first SinkCycles, every write succeeding.
SenseLogged == cycle_count < SinkCycles /\ Sense

\* log_trace raising on the k-th of `lines`: what print has put out.
Printed(lines, k) == SubSeq(lines, 1, k)

\* log_trace raising on the k-th of `lines`: what has reached the file.
Written(lines, k) == SubSeq(lines, 1, k - 1)

\* run(), lines 142-164, a header line failing: the counter, the sample and
\* the append of lines 142-150 are done before the first line is logged.
SenseFails ==
    /\ pc = "ready"
    /\ alive
    /\ cycle_count < SinkCycles
    /\ \E r \in SensorReport :
          LET lines == HeaderLines(cycle_count + 1, state, current_goal, r)
          IN  \E k \in 1 .. Len(lines) :
                 /\ cycle_count' = cycle_count + 1
                 /\ sensor_report' = <<r>>
                 /\ detected' = DetectDisaster(r)
                 /\ event_queue' = Enqueue(event_queue, DetectDisaster(r))
                 /\ trace' = Printed(lines, k)
                 /\ log_file' = Written(lines, k)
    /\ step_state' = state
    /\ step_goal' = current_goal
    /\ step_queue' = event_queue
    /\ popped' = <<>>
    /\ pre_act_state' = state
    /\ pc' = "failed"
    /\ UNCHANGED <<state, current_goal, alive, stop_calls, severity_args,
                   severities>>
    /\ UNCHANGED multi_vars

\* run(), lines 167-170, the event line or a line of handle_event failing:
\* the event is popped (line 168); in every branch of handle_event the
\* assignments follow the last log_trace call, so none is executed.
ProcessEventFails ==
    /\ pc = "event"
    /\ event_queue # <<>>
    /\ \E rnd \in RandomSamples :
          LET event == Dequeue(event_queue).event
              t == HandleEvent(state, current_goal, event, rnd)
              lines == <<EventLine(event)>> \o t.lines
          IN  \E k \in 1 .. Len(lines) :
                 /\ event_queue' = Dequeue(event_queue).rest
                 /\ popped' = <<event>>
                 /\ trace' = trace \o Printed(lines, k)
                 /\ log_file' = log_file \o Written(lines, k)
    /\ pc' = "failed"
    /\ UNCHANGED <<state, current_goal, cycle_count, alive, stop_calls,
                   step_state, step_goal, step_queue, pre_act_state,
                   sensor_report, detected, severity_args, severities>>
    /\ UNCHANGED multi_vars

\* run(), line 172 failing.
NoEventFails ==
    /\ pc = "event"
    /\ event_queue = <<>>
    /\ trace' = trace \o Printed(<<NoEventLine>>, 1)
    /\ log_file' = log_file \o Written(<<NoEventLine>>, 1)
    /\ pc' = "failed"
    /\ UNCHANGED <<state, current_goal, cycle_count, event_queue, alive,
                   stop_calls, step_state, step_goal, step_queue, popped,
                   pre_act_state, sensor_report, detected, severity_args,
                   severities>>
    /\ UNCHANGED multi_vars

\* run(), line 175, a line of execute_state_behavior failing: the one
\* assignment (line 236) follows the log_trace call of its branch.
ActFails ==
    /\ pc = "act"
    /\ LET lines == ExecuteStateBehavior(state).lines
       IN  \E k \in 1 .. Len(lines) :
              /\ trace' = trace \o Printed(lines, k)
              /\ log_file' = log_file \o Written(lines, k)
    /\ pre_act_state' = state
    /\ pc' = "failed"
    /\ UNCHANGED <<state, current_goal, cycle_count, event_queue, alive,
                   stop_calls, step_state, step_goal, step_queue, popped,
                   sensor_report, detected, severity_args, severities>>
    /\ UNCHANGED multi_vars

\* run(), lines 177-182, the closing rule or the stop line failing:
\* agent.stop() (line 182) follows both and is not awaited.
FinishFails ==
    /\ pc = "finish"
    /\ LET lines == IF BudgetReached(cycle_count)
                    THEN <<Rule70 \o "\n", StopLine>>
                    ELSE <<Rule70 \o "\n">>
       IN  \E k \in 1 .. Len(lines) :
              /\ trace' = trace \o Printed(lines, k)
              /\ log_file' = log_file \o Written(lines, k)
    /\ pc' = "failed"
    /\ UNCHANGED <<state, current_goal, cycle_count, event_queue, alive,
                   stop_calls, step_state, step_goal, step_queue, popped,
                   pre_act_state, sensor_report, detected, severity_args,
                   severities>>
    /\ UNCHANGED multi_vars

NextSink ==
    \/ SenseLogged \/ ProcessEvent \/ NoEvent \/ Act \/ Finish
    \/ SenseFails \/ ProcessEventFails \/ NoEventFails \/ ActFails
    \/ FinishFails

SpecSink == Init /\ [][NextSink]_vars

-----------------------------------------------------------------------------
(* multi_agent_disaster_manager.py: the sensor agent's MonitorBehaviour,    *)
(* the coordinator and the two rescue agents.  Smoke is in hundredths of a  *)
(* percent and vibration in hundredths of a Hz.  Each assignment to a       *)
(* coordinator or rescue state is a step of its own, so that the order of   *)
(* the states is observable; the only awaits that suspend are the two       *)
(* asyncio.sleep calls (pc "task_sleep" and "sleep").                       *)

\* Values of random.uniform(0, 10) for the four smoke sensors.
SmokeStarts == {<<0, 0, 0, 0>>, <<1000, 0, 500, 500>>}

\* Values of random.uniform(-5, 8) for the four smoke sensors of one cycle.
SmokeChanges ==
    {<<800, 800, 800, 800>>, <<-400, -400, -400, -400>>}

\* Values of random.uniform(0, 1).
VibrationStarts == {0, 100}

\* Values of random.uniform(-0.5, 1).
VibrationChanges == {-50, 100}

\* max(lo, min(hi, v)).
Clamp(lo, hi, v) == IF v < lo THEN lo ELSE IF v > hi THEN hi ELSE v

\* SmokeSensor.read_smoke: the new smoke_percentage.
ReadSmoke(smoke_percentage, change) == Clamp(0, 10000, smoke_percentage + change)

\* VibrationSensor.read_vibration: the new frequency.
ReadVibration(frequency, change) == Clamp(0, 1000, frequency + change)

RECURSIVE Sum(_)
Sum(readings) ==
    IF readings = <<>> THEN 0 ELSE Head(readings) + Sum(Tail(readings))

\* Mutant of EvaluateEnvironment: the disaster type is decided by the
\* vibration first.
EvaluateEnvironment_EarthquakeFirst(smoke_readings, vibration) ==
    LET smoky == Sum(smoke_readings) > 7000 * Len(smoke_readings)
    IN  IF smoky \/ vibration > 700
        THEN [severity |-> "CRITICAL",
              disaster_type |-> IF vibration > 700 THEN "EARTHQUAKE"
                                ELSE "FIRE"]
        ELSE [severity |-> "STABLE", disaster_type |-> "None"]

\* evaluate_environment: avg_smoke > 70 is sum > 70 * len.
EvaluateEnvironment(smoke_readings, vibration) ==
    LET smoky == Sum(smoke_readings) > 7000 * Len(smoke_readings)
    IN  IF smoky \/ vibration > 700
        THEN [severity |-> "CRITICAL",
              disaster_type |-> IF smoky THEN "FIRE" ELSE "EARTHQUAKE"]
        ELSE [severity |-> "STABLE", disaster_type |-> "None"]

\* Mutant of Dispatches: every cycle dispatches.
Dispatches_Always(result) == TRUE

\* MonitorBehaviour.run, line 111: the test that guards the dispatch.
Dispatches(result) == result.severity = "CRITICAL"

\* main(): the sensor agent, the coordinator and the rescue agents are built
\* and the sensor agent is started.
InitMulti ==
    /\ Constructed
    /\ event_queue = <<>>
    /\ step_queue = <<>>
    /\ severity_args = NoSeverityArgs
    /\ severities = <<>>
    /\ smoke_sensors \in SmokeStarts
    /\ vibration_sensor \in VibrationStarts
    /\ evaluation = <<>>
    /\ coordinator_state = IDLE
    /\ rescue_state = [a \in RescueAgents |-> IDLE]
    /\ chosen = <<>>
    /\ dispatch_calls = 0
    /\ pc = "monitor"

\* MonitorBehaviour.run, lines 102-112: read the sensors, evaluate, and go
\* on to the dispatch or to the sleep.
MonitorRead ==
    /\ pc = "monitor"
    /\ alive
    /\ \E changes \in SmokeChanges, change \in VibrationChanges :
          LET smoke_readings ==
                  [i \in SmokeSensorIds |->
                      ReadSmoke(smoke_sensors[i], changes[i])]
              vibration == ReadVibration(vibration_sensor, change)
              result == EvaluateEnvironment(smoke_readings, vibration)
          IN  /\ smoke_sensors' = smoke_readings
              /\ vibration_sensor' = vibration
              /\ evaluation' = <<result>>
              /\ pc' = IF Dispatches(result) THEN "handle_disaster"
                       ELSE "sleep"
    /\ dispatch_calls' = 0
    /\ UNCHANGED <<coordinator_state, rescue_state, chosen, alive>>
    /\ UNCHANGED fsm_vars

\* handle_disaster, line 72.
CoordinatorEvaluating ==
    /\ pc = "handle_disaster"
    /\ coordinator_state' = EVALUATING
    /\ dispatch_calls' = dispatch_calls + 1
    /\ pc' = "assigning"
    /\ UNCHANGED <<smoke_sensors, vibration_sensor, evaluation, rescue_state,
                   chosen, alive>>
    /\ UNCHANGED fsm_vars

\* handle_disaster, lines 75-79: ASSIGNING, random.choice, the call of
\* handle_task.
CoordinatorAssigning ==
    /\ pc = "assigning"
    /\ coordinator_state' = ASSIGNING
    /\ \E agent \in RescueAgents : chosen' = <<agent>>
    /\ pc' = "handle_task"
    /\ UNCHANGED <<smoke_sensors, vibration_sensor, evaluation, rescue_state,
                   dispatch_calls, alive>>
    /\ UNCHANGED fsm_vars

\* handle_task, line 51.
RescueDispatched ==
    /\ pc = "handle_task"
    /\ rescue_state' = [rescue_state EXCEPT ![chosen[1]] = DISPATCHED]
    /\ pc' = "responding"
    /\ UNCHANGED <<smoke_sensors, vibration_sensor, evaluation,
                   coordinator_state, chosen, dispatch_calls, alive>>
    /\ UNCHANGED fsm_vars

\* Mutant of RescueResponding: the task is started and not awaited, the
\* monitoring cycle goes on to its sleep.
RescueResponding_NotAwaited ==
    /\ pc = "responding"
    /\ rescue_state' = [rescue_state EXCEPT ![chosen[1]] = RESCUING]
    /\ pc' = "sleep"
    /\ UNCHANGED <<smoke_sensors, vibration_sensor, evaluation,
                   coordinator_state, chosen, dispatch_calls, alive>>
    /\ UNCHANGED fsm_vars

\* handle_task, lines 54-57: RESCUING, then await asyncio.sleep(5).
RescueResponding ==
    /\ pc = "responding"
    /\ rescue_state' = [rescue_state EXCEPT ![chosen[1]] = RESCUING]
    /\ pc' = "task_sleep"
    /\ UNCHANGED <<smoke_sensors, vibration_sensor, evaluation,
                   coordinator_state, chosen, dispatch_calls, alive>>
    /\ UNCHANGED fsm_vars

\* handle_task, line 59, after the sleep.
RescueCompleted ==
    /\ pc = "task_sleep"
    /\ rescue_state' = [rescue_state EXCEPT ![chosen[1]] = COMPLETED]
    /\ pc' = "completed"
    /\ UNCHANGED <<smoke_sensors, vibration_sensor, evaluation,
                   coordinator_state, chosen, dispatch_calls, alive>>
    /\ UNCHANGED fsm_vars

\* Mutant of RescueBackToIdle: the assignment of line 62 is missing.
RescueBackToIdle_StaysCompleted ==
    /\ pc = "completed"
    /\ pc' = "task_done"
    /\ UNCHANGED <<smoke_sensors, vibration_sensor, evaluation, rescue_state,
                   coordinator_state, chosen, dispatch_calls, alive>>
    /\ UNCHANGED fsm_vars

\* handle_task, lines 62-63: IDLE, and the return to handle_disaster.
RescueBackToIdle ==
    /\ pc = "completed"
    /\ rescue_state' = [rescue_state EXCEPT ![chosen[1]] = IDLE]
    /\ pc' = "task_done"
    /\ UNCHANGED <<smoke_sensors, vibration_sensor, evaluation,
                   coordinator_state, chosen, dispatch_calls, alive>>
    /\ UNCHANGED fsm_vars

\* handle_disaster, line 81.
CoordinatorMonitoring ==
    /\ pc = "task_done"
    /\ coordinator_state' = MONITORING
    /\ pc' = "coordinator_monitoring"
    /\ UNCHANGED <<smoke_sensors, vibration_sensor, evaluation, rescue_state,
                   chosen, dispatch_calls, alive>>
    /\ UNCHANGED fsm_vars

\* handle_disaster, lines 84-85: IDLE, and the return to run().
CoordinatorBackToIdle ==
    /\ pc = "coordinator_monitoring"
    /\ coordinator_state' = IDLE
    /\ chosen' = <<>>
    /\ pc' = "sleep"
    /\ UNCHANGED <<smoke_sensors, vibration_sensor, evaluation, rescue_state,
                   dispatch_calls, alive>>
    /\ UNCHANGED fsm_vars

\* MonitorBehaviour.run, line 115: asyncio.sleep(5) is over, run() returns
\* and the next call can begin.
MonitorSleep ==
    /\ pc = "sleep"
    /\ pc' = "monitor"
    /\ UNCHANGED <<alive>>
    /\ UNCHANGED multi_vars
    /\ UNCHANGED fsm_vars

\* main(), lines 170-174: ENTER is pressed and agent.stop() is awaited.  It
\* runs while the behaviour is suspended in one of its sleeps; no further
\* call of run() begins.
StopAgent ==
    /\ alive
    /\ pc \in {"task_sleep", "sleep"}
    /\ alive' = FALSE
    /\ UNCHANGED <<pc>>
    /\ UNCHANGED multi_vars
    /\ UNCHANGED fsm_vars

NextMulti ==
    \/ MonitorRead
    \/ CoordinatorEvaluating \/ CoordinatorAssigning
    \/ RescueDispatched \/ RescueResponding \/ RescueCompleted
    \/ RescueBackToIdle
    \/ CoordinatorMonitoring \/ CoordinatorBackToIdle
    \/ MonitorSleep
    \/ StopAgent

SpecMulti == InitMulti /\ [][NextMulti]_vars

-----------------------------------------------------------------------------
(* evaluate_environment on its own: one call on every combination of four   *)
(* smoke readings and a vibration from grids that hold the thresholds,      *)
(* their neighbours and the ends of the sensors' ranges.                    *)

\* Readings of a smoke sensor (0 to 100 percent).
GridSmoke == {0, 6000, 7000, 7001, 10000}

\* Readings of the vibration sensor (0 to 10 Hz).
GridVibration == {0, 699, 700, 701, 1000}

\* The arguments of a call: smoke_readings and vibration.
InitEvaluate ==
    /\ Constructed
    /\ event_queue = <<>>
    /\ step_queue = <<>>
    /\ severity_args = NoSeverityArgs
    /\ severities = <<>>
    /\ smoke_sensors \in [SmokeSensorIds -> GridSmoke]
    /\ vibration_sensor \in GridVibration
    /\ evaluation = <<>>
    /\ coordinator_state = IDLE
    /\ rescue_state = [a \in RescueAgents |-> IDLE]
    /\ chosen = <<>>
    /\ dispatch_calls = 0
    /\ pc = "evaluate"

\* self.agent.evaluate_environment(smoke_readings, vibration), line 107.
Evaluate ==
    /\ pc = "evaluate"
    /\ evaluation' = <<EvaluateEnvironment(smoke_sensors, vibration_sensor)>>
    /\ pc' = "evaluated"
    /\ UNCHANGED <<smoke_sensors, vibration_sensor, coordinator_state,
                   rescue_state, chosen, dispatch_calls, alive>>
    /\ UNCHANGED fsm_vars

NextEvaluate == Evaluate

SpecEvaluate == InitEvaluate /\ [][NextEvaluate]_vars

-----------------------------------------------------------------------------
(* Properties.  A "step" is one call of run(); it has completed when pc is  *)
(* back at "ready" with cycle_count > 0.  step_state and step_goal hold the *)
(* state and goal with which the step began, popped the event it popped.    *)

StepDone == pc = "ready" /\ cycle_count > 0

Popped == popped # <<>>

HasLine(line) == \E i \in DOMAIN trace : trace[i] = line

ResponseStates == {RESPONDING, RESCUING, EVACUATING}

\* C1: a step that starts in ASSESSING and pops an event of severity Critical
\* leaves the state RESCUING and the goal RESCUE_VICTIMS, and nothing else.
C1_AssessingCriticalRescues ==
    (Popped /\ step_state = ASSESSING /\ popped[1].severity = "Critical")
        => (state = RESCUING /\ current_goal = RESCUE_VICTIMS)

C1_Witness ==
    /\ StepDone /\ Popped
    /\ step_state = ASSESSING
    /\ popped[1].severity = "Critical"
    /\ state = RESCUING

\* C2: a step that starts in ASSESSING and pops an event of severity High
\* leaves the state EVACUATING and the goal EVACUATE_AREA, and the lines it
\* logged contain "ASSESSING → EVACUATING (High severity)".
C2_AssessingHighEvacuates ==
    (Popped /\ step_state = ASSESSING /\ popped[1].severity = "High")
        => /\ state = EVACUATING
           /\ current_goal = EVACUATE_AREA
           /\ HasLine("  " \o "ASSESSING → EVACUATING (High severity)")

C2_Witness ==
    /\ StepDone /\ Popped
    /\ step_state = ASSESSING
    /\ popped[1].severity = "High"
    /\ state = EVACUATING
    /\ HasLine("  ASSESSING → EVACUATING (High severity)")

\* C3: a step that starts in ASSESSING and pops an event of severity Medium
\* leaves the state RESPONDING and the goal COORDINATE_RESPONSE.
C3_AssessingMediumResponds ==
    (Popped /\ step_state = ASSESSING /\ popped[1].severity = "Medium")
        => (state = RESPONDING /\ current_goal = COORDINATE_RESPONSE)

C3_Witness ==
    /\ StepDone /\ Popped
    /\ step_state = ASSESSING
    /\ popped[1].severity = "Medium"
    /\ state = RESPONDING

\* C4: a step that starts in IDLE or MONITORING and pops an event, of any type
\* and severity, has the state ASSESSING and the goal ASSESS_DAMAGE from the
\* transition on.
C4_IdleOrMonitoringAssesses ==
    (Popped /\ step_state \in {IDLE, MONITORING})
        => (state = ASSESSING /\ current_goal = ASSESS_DAMAGE)

C4_Witness ==
    /\ StepDone /\ Popped
    /\ step_state = IDLE
    /\ state = ASSESSING
    /\ current_goal = ASSESS_DAMAGE

\* C5: a step that starts in RESPONDING, RESCUING or EVACUATING and pops an
\* event either moves to RECOVERY with goal COORDINATE_RESPONSE or leaves state
\* and goal as they were; both outcomes are possible whenever such a step is
\* about to pop.
C5_ResponseCompletesOrContinues ==
    /\ (Popped /\ step_state \in ResponseStates)
          => \/ state = RECOVERY /\ current_goal = COORDINATE_RESPONSE
             \/ state = step_state /\ current_goal = step_goal
    /\ (pc = "event" /\ event_queue # <<>> /\ state \in ResponseStates)
          => /\ ENABLED (ProcessEvent /\ state' = RECOVERY)
             /\ ENABLED (ProcessEvent /\ state' = state
                                      /\ current_goal' = current_goal)

C5_Witness ==
    /\ StepDone /\ Popped
    /\ step_state = RESCUING
    /\ state = RESCUING
    /\ current_goal = RESCUE_VICTIMS

\* C6: a step that starts in RECOVERY and pops an event, of any type and
\* severity, leaves the state MONITORING and the goal DETECT_DISASTERS.
C6_RecoveryReturnsToMonitoring ==
    (Popped /\ step_state = RECOVERY)
        => (state = MONITORING /\ current_goal = DETECT_DISASTERS)

C6_Witness ==
    /\ StepDone /\ Popped
    /\ step_state = RECOVERY
    /\ state = MONITORING
    /\ current_goal = DETECT_DISASTERS

\* C7, as stated: a step that starts in IDLE ends in MONITORING whatever the
\* event outcome of that step (an event popped or none).
C7_IdleStepEndsMonitoring ==
    (StepDone /\ step_state = IDLE) => state = MONITORING

\* C7, amended: a step that starts in IDLE and pops no event ends in MONITORING
\* by the action rule (entered in IDLE), the goal still MAINTAIN_SAFETY; a step
\* that starts in IDLE and pops an event ends in ASSESSING with goal
\* ASSESS_DAMAGE, the action rule having run on ASSESSING.
C7_IdleStepDependsOnEvent ==
    (StepDone /\ step_state = IDLE)
        => IF popped = <<>>
           THEN /\ state = MONITORING
                /\ current_goal = MAINTAIN_SAFETY
                /\ pre_act_state = IDLE
           ELSE /\ state = ASSESSING
                /\ current_goal = ASSESS_DAMAGE
                /\ pre_act_state = ASSESSING

C7_Witness ==
    /\ StepDone
    /\ step_state = IDLE
    /\ popped = <<>>
    /\ pre_act_state = IDLE
    /\ state = MONITORING

\* C8, as stated: in no transition does the state change while the goal keeps
\* its value, or the goal change while the state keeps its value.
C8_StateAndGoalChangeAsPair ==
    [][(state' # state) <=> (current_goal' # current_goal)]_vars

\* C8, amended: the goal never changes unless the state changes in the same
\* transition, and that transition is the event phase; the state changes while
\* the goal keeps its value in exactly two transitions: the action rule of
\* IDLE (to MONITORING), and RESPONDING to RECOVERY in the event phase, whose
\* goal is COORDINATE_RESPONSE before and after.
C8_GoalChangesOnlyWithState ==
    [][ /\ (current_goal' # current_goal)
              => (state' # state /\ pc = "event")
        /\ (state' # state /\ current_goal' = current_goal)
              => \/ pc = "act" /\ state = IDLE /\ state' = MONITORING
                 \/ pc = "event" /\ state = RESPONDING /\ state' = RECOVERY
      ]_vars

C8_Witness ==
    /\ pc = "finish"
    /\ pre_act_state = IDLE
    /\ state = MONITORING
    /\ current_goal = step_goal
    /\ step_state = IDLE

\* The goal the transition table assigns on entering each state, and the
\* initial goal for IDLE.
CanonicalGoal(st) ==
    CASE st = IDLE -> MAINTAIN_SAFETY
      [] st = MONITORING -> DETECT_DISASTERS
      [] st = ASSESSING -> ASSESS_DAMAGE
      [] st = RESPONDING -> COORDINATE_RESPONSE
      [] st = RESCUING -> RESCUE_VICTIMS
      [] st = EVACUATING -> EVACUATE_AREA
      [] st = RECOVERY -> COORDINATE_RESPONSE

\* C9, as stated: between steps every state occurs with exactly one goal, its
\* canonical one (MONITORING with DETECT_DISASTERS, IDLE with MAINTAIN_SAFETY).
C9_GoalIsCanonical ==
    pc = "ready" => current_goal = CanonicalGoal(state)

\* C9, amended: between steps every state other than MONITORING occurs with
\* exactly one goal, its canonical one; MONITORING occurs with DETECT_DISASTERS
\* or, when it was entered by the action rule of IDLE, with MAINTAIN_SAFETY.
C9_GoalIsCanonicalOrBootstrap ==
    pc = "ready"
        => \/ current_goal = CanonicalGoal(state)
           \/ state = MONITORING /\ current_goal = MAINTAIN_SAFETY

C9_Witness ==
    /\ StepDone
    /\ state = MONITORING
    /\ current_goal = MAINTAIN_SAFETY
    /\ cycle_count > 1

EventPhaseDone == pc \in {"act", "finish"} \/ StepDone

\* C11: the event queue never holds more than one event, it is empty at the
\* end of every step, and the event a cycle pushes is the event that cycle pops.
C11_QueueDepthAtMostOne ==
    /\ Len(event_queue) <= 1
    /\ pc = "event" => event_queue = detected
    /\ pc # "event" => event_queue = <<>>
    /\ EventPhaseDone => popped = detected

C11_Witness ==
    /\ StepDone
    /\ detected # <<>>
    /\ popped = detected
    /\ event_queue = <<>>

\* C12: when the queue is empty at the pop point, the event phase pops
\* nothing, goes on to the action rule, and leaves the queue, the state and
\* the goal as they were (handle_event is not run).
C12_EmptyQueuePopsNothing ==
    [][(pc = "event" /\ event_queue = <<>>)
          => /\ pc' = "act"
             /\ popped' = <<>>
             /\ event_queue' = <<>>
             /\ state' = state
             /\ current_goal' = current_goal
             /\ \A i \in DOMAIN trace' : trace'[i] # "\n[FSM TRANSITION]"
      ]_vars

C12_Witness ==
    /\ pc = "act"
    /\ detected = <<>>
    /\ popped = <<>>
    /\ event_queue = <<>>
    /\ state = step_state
    /\ current_goal = step_goal
    /\ HasLine("\n[STATUS] No events detected")

\* C13: push appends at the back; a step removes the oldest queued event and
\* no other, and leaves the remaining events in their order.
C13_QueueIsFifo ==
    LET pushed == step_queue \o detected
    IN  /\ pc = "event" => event_queue = pushed
        /\ EventPhaseDone
              => IF pushed = <<>>
                 THEN popped = <<>> /\ event_queue = <<>>
                 ELSE /\ popped = <<pushed[1]>>
                      /\ event_queue = SubSeq(pushed, 2, Len(pushed))

C13_Witness ==
    /\ StepDone
    /\ Len(step_queue) = 2
    /\ step_queue[1] # step_queue[2]
    /\ detected # <<>>
    /\ detected[1] # step_queue[2]
    /\ popped = <<step_queue[1]>>
    /\ event_queue = <<step_queue[2], detected[1]>>

-----------------------------------------------------------------------------
(* Properties of the classifier.                                            *)

\* severityTier as the design states it: position = (value - lo) / (hi - lo),
\* clamped to [0, 1]; below 0.33 Medium, below 0.66 High, else Critical.  The
\* position is the fraction num / den, value in hundredths.
SeverityTier(value, lo, hi) ==
    LET den == 100 * (hi - lo)
        raw == value - 100 * lo
        num == IF raw < 0 THEN 0 ELSE IF raw > den THEN den ELSE raw
    IN  IF 100 * num < 33 * den THEN "Medium"
        ELSE IF 100 * num < 66 * den THEN "High"
        ELSE "Critical"

Classified == pc \in {"classified", "pushed"}

Report == sensor_report[1]

\* C14: every report with temperature > 40 is classified as a Fire at
\* "Fire Zone" with severity severityTier(temperature, 40, 50), whatever the
\* other three values; temperature 42, wind 10, water 1, damage 5 gives a Fire
\* of severity Medium.
C14_FireRuleWins ==
    Classified =>
        /\ Report.temperature > 4000
              => detected = <<[event_type |-> "Fire",
                               severity |-> SeverityTier(Report.temperature, 40, 50),
                               location |-> "Fire Zone"]>>
        /\ Report = [temperature |-> 4200, wind_speed |-> 1000,
                     water_level |-> 100, structural_damage |-> 500]
              => detected = <<[event_type |-> "Fire", severity |-> "Medium",
                               location |-> "Fire Zone"]>>

C14_Witness ==
    /\ Classified
    /\ Report.temperature > 4000
    /\ Report.water_level > 500
    /\ Report.wind_speed > 8000
    /\ Report.structural_damage > 6000
    /\ detected[1].event_type = "Fire"
    /\ detected[1].severity = "High"

\* C15: every report with temperature <= 40 and water level > 5 is classified
\* as a Flood at "Flood Zone" with severity severityTier(waterLevel, 5, 10),
\* whatever the wind speed and the structural damage.
C15_FloodRuleSecond ==
    (Classified /\ Report.temperature <= 4000 /\ Report.water_level > 500)
        => detected = <<[event_type |-> "Flood",
                         severity |-> SeverityTier(Report.water_level, 5, 10),
                         location |-> "Flood Zone"]>>

C15_Witness ==
    /\ Classified
    /\ Report.temperature = 4000
    /\ Report.water_level > 500
    /\ Report.wind_speed > 8000
    /\ Report.structural_damage > 6000
    /\ detected[1].event_type = "Flood"

\* C16: every report with temperature <= 40, water level <= 5 and wind speed
\* > 80 is classified as a Hurricane at "Storm Zone" with severity
\* severityTier(windSpeed, 80, 120), whatever the structural damage.
C16_HurricaneRuleThird ==
    (Classified /\ Report.temperature <= 4000 /\ Report.water_level <= 500
                /\ Report.wind_speed > 8000)
        => detected = <<[event_type |-> "Hurricane",
                         severity |-> SeverityTier(Report.wind_speed, 80, 120),
                         location |-> "Storm Zone"]>>

C16_Witness ==
    /\ Classified
    /\ Report.temperature <= 4000
    /\ Report.water_level = 500
    /\ Report.wind_speed > 8000
    /\ Report.structural_damage > 6000
    /\ detected[1].event_type = "Hurricane"
    /\ detected[1].severity = "Critical"

\* C17: a report with temperature <= 40, water level <= 5 and wind speed <= 80
\* is classified as a Building Collapse at "Collapse Zone" with severity
\* severityTier(structuralDamage, 60, 100) when the damage is > 60 and as no
\* event when it is <= 60; no other report is classified as no event.
C17_CollapseRuleLastOrNone ==
    Classified =>
        LET quiet == /\ Report.temperature <= 4000
                     /\ Report.water_level <= 500
                     /\ Report.wind_speed <= 8000
        IN  /\ (quiet /\ Report.structural_damage > 6000)
                  => detected =
                       <<[event_type |-> "Building Collapse",
                          severity |->
                              SeverityTier(Report.structural_damage, 60, 100),
                          location |-> "Collapse Zone"]>>
            /\ (detected = <<>>) <=> (quiet /\ Report.structural_damage <= 6000)

C17_Witness ==
    /\ Classified
    /\ Report.temperature = 4000
    /\ Report.water_level = 500
    /\ Report.wind_speed = 8000
    /\ Report.structural_damage = 6000
    /\ detected = <<>>

\* The order Medium < High < Critical.
TierRank(tier) ==
    CASE tier = "Medium" -> 1
      [] tier = "High" -> 2
      [] tier = "Critical" -> 3

SeverityDone == pc = "severity_done"

\* C18: for fixed thresholds lo < hi, _get_severity is monotonic in the value:
\* v1 < v2 implies tier(v1) <= tier(v2) in the order Medium < High < Critical.
C18_SeverityMonotonic ==
    (SeverityDone /\ severity_args.value < severity_args.other)
        => TierRank(severities[1]) <= TierRank(severities[2])

C18_Witness ==
    /\ SeverityDone
    /\ severity_args.value < severity_args.other
    /\ severities = <<"Medium", "Critical">>

\* The position of the first value under test is PositionNum / PositionDen.
PositionNum == severity_args.value - 100 * severity_args.min_threshold

PositionDen == 100 * (severity_args.max_threshold - severity_args.min_threshold)

\* C19: with position = (value - lo) / (hi - lo), the tier is Medium when
\* position < 0.33, High when 0.33 <= position < 0.66 and Critical when
\* position >= 0.66 (exactly 0.33 gives High, exactly 0.66 gives Critical); a
\* value outside [lo, hi] gets the tier of the clamped position: Medium below
\* lo, Critical above hi.
C19_SeverityCuts ==
    SeverityDone =>
        /\ (100 * PositionNum < 33 * PositionDen) <=> (severities[1] = "Medium")
        /\ (/\ 33 * PositionDen <= 100 * PositionNum
            /\ 100 * PositionNum < 66 * PositionDen) <=> (severities[1] = "High")
        /\ (100 * PositionNum >= 66 * PositionDen) <=> (severities[1] = "Critical")
        /\ severities[1] = SeverityTier(severity_args.value,
                                        severity_args.min_threshold,
                                        severity_args.max_threshold)
        /\ PositionNum < 0 => severities[1] = "Medium"
        /\ PositionNum > PositionDen => severities[1] = "Critical"

C19_Witness ==
    /\ SeverityDone
    /\ 100 * PositionNum = 33 * PositionDen
    /\ severities[1] = "High"
    /\ 100 * (severity_args.other - 100 * severity_args.min_threshold)
          = 66 * PositionDen
    /\ severities[2] = "Critical"

\* C20: the action rule of every state other than IDLE only appends trace
\* lines: state, goal, cycle counter and event queue stay as they were.
C20_OtherActionsOnlyTrace ==
    [][(pc = "act" /\ state # IDLE)
          => /\ pc' = "finish"
             /\ state' = state
             /\ current_goal' = current_goal
             /\ cycle_count' = cycle_count
             /\ event_queue' = event_queue
             /\ Len(trace') > Len(trace)
             /\ SubSeq(trace', 1, Len(trace)) = trace
      ]_vars

C20_Witness ==
    /\ pc = "finish"
    /\ pre_act_state = RECOVERY
    /\ state = RECOVERY
    /\ current_goal = COORDINATE_RESPONSE
    /\ HasLine("  → Preparing for next incident")

-----------------------------------------------------------------------------
(* Properties of the error handling.                                        *)

TransitionRule(st, goal, event) ==
    IF st \in {IDLE, MONITORING} THEN {<<ASSESSING, ASSESS_DAMAGE>>}
    ELSE IF st = ASSESSING
    THEN (IF event.severity = "Critical" THEN {<<RESCUING, RESCUE_VICTIMS>>}
          ELSE IF event.severity = "High" THEN {<<EVACUATING, EVACUATE_AREA>>}
          ELSE IF event.severity = "Medium"
               THEN {<<RESPONDING, COORDINATE_RESPONSE>>}
          ELSE {})
    ELSE IF st \in ResponseStates
    THEN {<<RECOVERY, COORDINATE_RESPONSE>>, <<st, goal>>}
    ELSE {<<MONITORING, DETECT_DISASTERS>>}

SinkFailed == pc = "failed"

\* C22: when a write of a trace line fails in a step, the failure reaches the
\* caller of the step and the transition of that step is not aborted: state
\* and goal after the failed step are what the transition rule prescribes for
\* the popped event.
C22_SinkFailureKeepsTransition ==
    (SinkFailed /\ Popped)
        => <<state, current_goal>>
              \in TransitionRule(step_state, step_goal, popped[1])

\* C23: at every point of every run, also after a failed write to the trace
\* file, the lines on the console and the lines in the file are the same,
\* in the same order.
C23_ConsoleAndFileIdentical == trace = log_file

-----------------------------------------------------------------------------
(* Properties of the multi-agent manager.                                   *)

\* The (severity, disaster_type) of the current monitoring cycle.
Evaluated == evaluation # <<>>

\* C24: coordinator.handle_disaster is called in a monitoring cycle exactly
\* when the severity evaluated in that cycle is CRITICAL: once in such a
\* cycle (the call is made from the point "handle_disaster" on) and never
\* in a cycle of another severity.
C24_DispatchExactlyWhenCritical ==
    /\ dispatch_calls = (IF /\ Evaluated
                            /\ evaluation[1].severity = "CRITICAL"
                            /\ pc # "handle_disaster"
                         THEN 1 ELSE 0)
    /\ pc = "handle_disaster"
          => (Evaluated /\ evaluation[1].severity = "CRITICAL")
    /\ (Evaluated /\ evaluation[1].severity # "CRITICAL")
          => (pc \in {"sleep", "monitor"} /\ coordinator_state = IDLE)

C24_Witness ==
    /\ pc = "sleep"
    /\ dispatch_calls = 1
    /\ evaluation[1] = [severity |-> "CRITICAL", disaster_type |-> "EARTHQUAKE"]
    /\ coordinator_state = IDLE
    /\ alive

\* The coordinator or a rescue agent is in a state other than IDLE.
Busy ==
    \/ coordinator_state # IDLE
    \/ \E agent \in RescueAgents : rescue_state[agent] # IDLE

\* C28: a monitoring cycle that dispatches waits for the dispatch to finish:
\* while the coordinator or a rescue agent is not IDLE no sensor is read, no
\* evaluation is made and no second dispatch is started, and the cycle comes
\* to its sleep, and to the next reading, only with everybody IDLE.
C28_DispatchIsAwaited ==
    [][ /\ Busy => /\ smoke_sensors' = smoke_sensors
                   /\ vibration_sensor' = vibration_sensor
                   /\ evaluation' = evaluation
                   /\ dispatch_calls' = dispatch_calls
        /\ pc' \in {"sleep", "monitor"} => ~Busy'
      ]_vars

C28_Witness ==
    /\ pc = "task_sleep"
    /\ coordinator_state = ASSIGNING
    /\ rescue_state[2] = RESCUING
    /\ rescue_state[1] = IDLE
    /\ evaluation[1].disaster_type = "FIRE"
    /\ dispatch_calls = 1

-----------------------------------------------------------------------------
(* Properties of the run as a whole.                                        *)

\* C25: with cycles scheduled fairly and every write succeeding, every run
\* reaches cycle counter 15 and requests the stop of the agent, whatever the
\* readings and the random outcomes; the counter grows by exactly 1 in each
\* call of run() (at its beginning) and never exceeds 15.
C25_ReachesBudgetAndStops ==
    /\ <>(cycle_count = 15 /\ stop_calls = 1 /\ ~alive)
    /\ [](cycle_count <= 15)
    /\ [][ /\ pc = "ready" => cycle_count' = cycle_count + 1
           /\ pc # "ready" => cycle_count' = cycle_count
         ]_vars

C25_Witness ==
    /\ pc = "ready"
    /\ cycle_count = 15
    /\ stop_calls = 1
    /\ ~alive
    /\ state = RESCUING
    /\ ~ENABLED Next

\* The positions in the trace of the header of the action rule, and of the
\* first line of either branch of the event phase.
ActionHeaders == {i \in DOMAIN trace : trace[i] = "\n[ACTIONS]"}

EventPhaseLines ==
    {i \in DOMAIN trace :
        trace[i] \in {"\n[FSM TRANSITION]", "\n[STATUS] No events detected"}}

\* C26: in every step the action rule runs exactly once, after the event
\* phase, on the state the transition rule left; a step that starts in IDLE
\* and pops an event ends in ASSESSING with goal ASSESS_DAMAGE: the action of
\* ASSESSING has run and the action of IDLE (to MONITORING) has not.
C26_ActionRuleOnceAfterEvent ==
    /\ pc \in {"event", "act"} => ActionHeaders = {}
    /\ (pc = "finish" \/ StepDone)
          => /\ Cardinality(ActionHeaders) = 1
             /\ Cardinality(EventPhaseLines) = 1
             /\ \A i \in ActionHeaders, j \in EventPhaseLines : j < i
             /\ IF Popped
                THEN <<pre_act_state, current_goal>>
                        \in TransitionRule(step_state, step_goal, popped[1])
                ELSE pre_act_state = step_state
    /\ (StepDone /\ Popped /\ step_state = IDLE)
          => /\ state = ASSESSING
             /\ current_goal = ASSESS_DAMAGE
             /\ HasLine("  → Analyzing disaster impact")
             /\ ~HasLine("  → Initializing systems...")

C26_Witness ==
    /\ StepDone /\ Popped
    /\ step_state = IDLE
    /\ pre_act_state = ASSESSING
    /\ state = ASSESSING
    /\ HasLine("  → Analyzing disaster impact")
    /\ ~HasLine("  → Initializing systems...")

\* C27: a step that pops no event ends with the goal it began with, whatever
\* the state it began in, and with the state it began in unless that was
\* IDLE, which becomes MONITORING (goal still MAINTAIN_SAFETY); the goal
\* MAINTAIN_SAFETY changes only in the event phase of a step that pops an
\* event.
C27_NoEventStepKeepsGoal ==
    [][ /\ (pc' = "ready" /\ popped' = <<>>)
              => /\ current_goal' = step_goal'
                 /\ state' = IF step_state' = IDLE THEN MONITORING
                             ELSE step_state'
                 /\ step_state' = IDLE => current_goal' = MAINTAIN_SAFETY
        /\ (current_goal = MAINTAIN_SAFETY /\ current_goal' # MAINTAIN_SAFETY)
              => (pc = "event" /\ popped' # <<>>)
      ]_vars

C27_Witness ==
    /\ StepDone
    /\ popped = <<>>
    /\ cycle_count = 3
    /\ step_state = MONITORING
    /\ state = MONITORING
    /\ current_goal = MAINTAIN_SAFETY

\* C29: IDLE occurs only before the first step completes: it is the state of
\* no completed step and of no later step, whatever the readings, events and
\* random outcomes.
C29_IdleOnlyBeforeFirstStep ==
    state = IDLE
        => /\ cycle_count <= 1
           /\ ~StepDone
           /\ pc \in {"ready", "event", "act"}

C29_Witness ==
    /\ StepDone
    /\ cycle_count = 15
    /\ step_state = RECOVERY
    /\ state = MONITORING
    /\ Popped

\* C30: with readings from the sampler's ranges no Fire and no Flood event
\* has severity Critical, so a step enters RESCUING only when the event it
\* pops is a Hurricane or a Building Collapse.
C30_RescuingOnlyOnHurricaneOrCollapse ==
    /\ (detected # <<>> /\ detected[1].event_type \in {"Fire", "Flood"})
          => detected[1].severity # "Critical"
    /\ (state = RESCUING /\ step_state # RESCUING)
          => /\ Popped
             /\ popped[1].event_type \in {"Hurricane", "Building Collapse"}

C30_Witness ==
    /\ StepDone /\ Popped
    /\ step_state = ASSESSING
    /\ state = RESCUING
    /\ popped[1].event_type = "Hurricane"
    /\ sensor_report[1].temperature = 4000
    /\ sensor_report[1].water_level = 100

-----------------------------------------------------------------------------
(* Properties of the dispatch and of evaluate_environment.                  *)

\* The order of the coordinator's states and of a rescue agent's states.
CoordinatorOrder ==
    {<<IDLE, EVALUATING>>, <<EVALUATING, ASSIGNING>>,
     <<ASSIGNING, MONITORING>>, <<MONITORING, IDLE>>}

RescueOrder ==
    {<<IDLE, DISPATCHED>>, <<DISPATCHED, RESCUING>>, <<RESCUING, COMPLETED>>,
     <<COMPLETED, IDLE>>}

\* C31: the coordinator changes state only along IDLE, EVALUATING, ASSIGNING,
\* MONITORING, IDLE and a rescue agent only along IDLE, DISPATCHED, RESCUING,
\* COMPLETED, IDLE; only the chosen agent leaves IDLE, and it has made its
\* whole round when the coordinator enters MONITORING; the coordinator is
\* ASSIGNING whenever a rescue agent is not IDLE; when handle_disaster
\* returns, the coordinator and every rescue agent are IDLE.
C31_DispatchStateOrder ==
    [][ /\ coordinator_state' # coordinator_state
              => <<coordinator_state, coordinator_state'>> \in CoordinatorOrder
        /\ \A agent \in RescueAgents :
              /\ rescue_state'[agent] # rescue_state[agent]
                    => /\ <<rescue_state[agent], rescue_state'[agent]>>
                             \in RescueOrder
                       /\ chosen = <<agent>>
              /\ rescue_state'[agent] # IDLE
                    => coordinator_state' = ASSIGNING
        /\ (coordinator_state = ASSIGNING /\ coordinator_state' = MONITORING)
              => /\ pc = "task_done"
                 /\ \A agent \in RescueAgents : rescue_state[agent] = IDLE
        /\ pc' = "task_done"
              => (pc = "completed" /\ rescue_state[chosen[1]] = COMPLETED)
        /\ (pc = "coordinator_monitoring" /\ pc' # pc)
              => /\ coordinator_state' = IDLE
                 /\ \A agent \in RescueAgents : rescue_state'[agent] = IDLE
      ]_vars

C31_Witness ==
    /\ pc = "sleep"
    /\ dispatch_calls = 1
    /\ coordinator_state = IDLE
    /\ \A agent \in RescueAgents : rescue_state[agent] = IDLE
    /\ chosen = <<>>
    /\ evaluation[1].disaster_type = "FIRE"

\* C32: at most one rescue agent is in a state other than IDLE at any time.
C32_AtMostOneRescueAgentBusy ==
    Cardinality({agent \in RescueAgents : rescue_state[agent] # IDLE}) <= 1

C32_Witness ==
    /\ rescue_state[1] = COMPLETED
    /\ rescue_state[2] = IDLE
    /\ coordinator_state = ASSIGNING
    /\ ~alive

\* The average of the four smoke readings is above 70 percent.
SmokeAbove70 ==
    smoke_sensors[1] + smoke_sensors[2] + smoke_sensors[3] + smoke_sensors[4]
        > 4 * 7000

\* C33: evaluate_environment returns CRITICAL exactly when the average smoke
\* is > 70 or the vibration is > 7, and STABLE with no disaster type
\* otherwise; a CRITICAL result is of type FIRE whenever the average smoke is
\* > 70, whatever the vibration, and EARTHQUAKE only when it is <= 70.
C33_CriticalIffSmokeOrVibration ==
    pc = "evaluated" =>
        /\ evaluation[1].severity \in {"CRITICAL", "STABLE"}
        /\ (evaluation[1].severity = "CRITICAL")
              <=> (SmokeAbove70 \/ vibration_sensor > 700)
        /\ evaluation[1].severity = "STABLE"
              => evaluation[1].disaster_type = "None"
        /\ evaluation[1].severity = "CRITICAL"
              => evaluation[1].disaster_type =
                    (IF SmokeAbove70 THEN "FIRE" ELSE "EARTHQUAKE")

C33_Witness ==
    /\ pc = "evaluated"
    /\ smoke_sensors = <<7000, 7000, 7001, 7000>>
    /\ vibration_sensor = 1000
    /\ evaluation[1] = [severity |-> "CRITICAL", disaster_type |-> "FIRE"]

====
